---------------------------- MODULE Spec2Model ----------------------------
(***************************************************************************)
(* Duplicate Files Finder (src/find_duplicate_files.py).                   *)
(*                                                                         *)
(* The file system is a function fs from paths to files.  A file has a     *)
(* content and three ways of failing with OSError: the metadata query      *)
(* (getsize), open(), and a read that touches a damaged byte.  A content   *)
(* is a byte string, kept run-length encoded (a sequence of runs           *)
(* [b |-> byte, n |-> count], adjacent runs of different bytes) so that    *)
(* the comparator's real chunk size of 4096 bytes can be used.  Two        *)
(* contents are the same byte string iff their encodings are equal.        *)
(*                                                                         *)
(* Python lists are objects: heap maps a reference to the list's value,    *)
(* so that in-place mutation (pop, remove) and aliasing are visible.       *)
(***************************************************************************)
EXTENDS Integers, Sequences, FiniteSets, TLC

VARIABLES
    fs,            \* path -> file: the directory's files (never written)
    heap,          \* reference -> value of a list object
    input,         \* value of the caller's list at the call (history)
    strategy,      \* group_files_function handed to find_duplicate_files
    pc,            \* position of the running call
    size_groups,   \* references of the lists group_files_by_size returned
    i,             \* index of the for loop of find_duplicate_files
    groups,        \* find_duplicate_files: groups
    cur,           \* group_files_by_read_content: file_path_names (a reference)
    groups_list,   \* group_files_by_read_content: groups_list
    classes,       \* same_files of every iteration of the running call (history)
    calls,         \* finished grouping calls [fn, arg, ret] (history)
    faster_algo,   \* main: args.faster_algo
    stdout,        \* main: what print_result printed, one entry per call
    cmp            \* frame of a direct call of deep_compare_two_files

vars == <<fs, heap, input, strategy, pc, size_groups, i, groups, cur,
          groups_list, classes, calls, faster_algo, stdout, cmp>>

---------------------------------------------------------------------------
(* Bounds *)

\* longest list of paths handed to an operation
MaxLen == 4

---------------------------------------------------------------------------
(* Byte strings *)

\* read_size = 4*1024
read_size == 4 * 1024

Run(b, n) == [b |-> b, n |-> n]

RECURSIVE ByteLen(_)
\* len(content)
ByteLen(c) == IF c = <<>> THEN 0 ELSE c[1].n + ByteLen(Tail(c))

RECURSIVE Take(_, _)
\* content[:k]
Take(c, k) ==
    IF k = 0 \/ c = <<>> THEN <<>>
    ELSE IF c[1].n <= k THEN <<c[1]>> \o Take(Tail(c), k - c[1].n)
    ELSE <<Run(c[1].b, k)>>

RECURSIVE Drop(_, _)
\* content[k:]
Drop(c, k) ==
    IF k = 0 \/ c = <<>> THEN c
    ELSE IF c[1].n <= k THEN Drop(Tail(c), k - c[1].n)
    ELSE <<Run(c[1].b, c[1].n - k)>> \o Tail(c)

RECURSIVE ByteSum(_)
ByteSum(c) == IF c = <<>> THEN 0 ELSE c[1].b * c[1].n + ByteSum(Tail(c))

\* The contents used.  Text is two chunks long (4096 + 2 bytes); Swap has the
\* same bytes as Text with the last two exchanged; Edit differs from Text in
\* its last byte only; Short is one byte; Empty has no byte.
Empty == <<>>
Text  == <<Run(97, 4096), Run(98, 1), Run(99, 1)>>
Swap  == <<Run(97, 4096), Run(99, 1), Run(98, 1)>>
Edit  == <<Run(97, 4096), Run(98, 2)>>
Short == <<Run(100, 1)>>
\* further contents for the comparator: one full chunk (a strict prefix of
\* Text), a difference in the first chunk, two full chunks
Chunk == <<Run(97, 4096)>>
Head1 == <<Run(98, 1), Run(97, 4095), Run(98, 1), Run(99, 1)>>
Twice == <<Run(97, 8192)>>

---------------------------------------------------------------------------
(* Files *)

\* content: the bytes; stat: the metadata query succeeds; open: open()
\* succeeds; damaged: offsets of bytes whose read raises OSError
File(c, st, op, dmg) == [content |-> c, stat |-> st, open |-> op, damaged |-> dmg]

\* The files a directory of the pipeline's runs is made of: a healthy file of
\* every content, a Text that cannot be opened (permission denied), a Text
\* whose second chunk cannot be read, and a file whose metadata query fails.
PipelineFiles ==
    { File(c, TRUE, TRUE, {}) : c \in {Empty, Text, Swap, Edit, Short} }
    \cup { File(Text, TRUE, FALSE, {}),
           File(Text, TRUE, TRUE, {4096}),
           File(Text, FALSE, FALSE, {}) }

\* The files of the comparator's runs.
CompareFiles ==
    { File(c, TRUE, TRUE, {}) :
        c \in {Empty, Text, Swap, Edit, Short, Chunk, Head1, Twice} }
    \cup { File(Text, TRUE, FALSE, {}),
           File(Text, TRUE, TRUE, {0}),
           File(Text, TRUE, TRUE, {4096}),
           File(Twice, TRUE, TRUE, {8191}) }

\* every byte of the file can be read
Readable(f) == f.open /\ \A d \in f.damaged : d >= ByteLen(f.content)

\* the size query and every read succeed
Healthy(f) == f.stat /\ Readable(f)

---------------------------------------------------------------------------
(* Values of Python: a feature is an int, a str or None; a call can also   *)
(* end by raising OSError.                                                 *)

None    == [kind |-> "None", val |-> 0]
OSError == [kind |-> "OSError", val |-> 0]
PyInt(n) == [kind |-> "int", val |-> n]
PyStr(d) == [kind |-> "str", val |-> d]

\* os.path.getsize: the size from the metadata, OSError when the query fails
getsize(p) == IF fs[p].stat THEN PyInt(ByteLen(fs[p].content)) ELSE OSError

\* open(file_path, 'rb') and file.read() of the whole file
ReadAll(p) ==
    IF Readable(fs[p]) THEN [raised |-> FALSE, data |-> fs[p].content]
    ELSE [raised |-> TRUE, data |-> <<>>]

\* md5(...).hexdigest(): a 32-character string that is a function of the
\* content alone and is not injective.  The digest itself is not computed:
\* the sum of the bytes stands for it, so that contents with the same bytes in
\* another order (Text, Swap) collide.
hexdigest(c) == PyStr(ByteSum(c))

\* a get_file_hash that hashes what it could read (nothing) when the read
\* raises, instead of returning None
get_file_hash_of_nothing(p) == hexdigest(ReadAll(p).data)

get_file_hash(p) ==
    LET r == ReadAll(p)
    IN  IF r.raised THEN None ELSE hexdigest(r.data)

\* bool(feature) in "if file_feature:": None and 0 are false; a hexdigest is
\* a non-empty string
Truthy(v) == \/ v.kind = "str"
             \/ v.kind = "int" /\ v.val # 0

\* get_feature_function(file_path)
Feature(fn, p) ==
    CASE fn = "getsize"       -> getsize(p)
      [] fn = "get_file_hash" -> get_file_hash(p)

\* a group_files without the try/except around the feature function
NotCaught(v) == v

\* try: ... except OSError: file_feature = None
Caught(v) == IF v = OSError THEN None ELSE v

---------------------------------------------------------------------------
(* deep_compare_two_files *)

\* f.read(read_size) at position pos: the next chunk (empty at end-of-file),
\* OSError when the chunk holds a damaged byte
ReadChunk(p, pos) ==
    IF \E d \in fs[p].damaged :
           pos <= d /\ d < pos + read_size /\ d < ByteLen(fs[p].content)
    THEN [raised |-> TRUE, data |-> <<>>]
    ELSE [raised |-> FALSE, data |-> Take(Drop(fs[p].content, pos), read_size)]

\* with open(file_path1, 'rb') as f1, open(file_path2, 'rb') as f2
OpenBoth(p1, p2) == IF fs[p1].open /\ fs[p2].open THEN "opened" ELSE "OSError"

\* a comparator that returns True as soon as one pair of chunks is equal
CompareIterFirstChunk(p1, p2, pos1, pos2) ==
    LET content1 == ReadChunk(p1, pos1)
        content2 == ReadChunk(p2, pos2)
    IN  IF content1.raised \/ content2.raised THEN "OSError"
        ELSE IF content1.data # content2.data THEN "False"
        ELSE "True"

\* One pass of the body of "while True": "False"/"True" when it returns,
\* "OSError" when a read raises, "loop" when it goes round again.
CompareIter(p1, p2, pos1, pos2) ==
    LET content1 == ReadChunk(p1, pos1)
        content2 == ReadChunk(p2, pos2)
    IN  IF content1.raised \/ content2.raised THEN "OSError"
        ELSE IF content1.data # content2.data THEN "False"
        ELSE IF content1.data = <<>> THEN "True"
        ELSE "loop"

\* except OSError: return False
OnOSError == "False"

RECURSIVE CompareLoop(_, _, _, _)
CompareLoop(p1, p2, pos1, pos2) ==
    LET r == CompareIter(p1, p2, pos1, pos2)
    IN  IF r = "loop"
        THEN CompareLoop(p1, p2,
                         pos1 + ByteLen(ReadChunk(p1, pos1).data),
                         pos2 + ByteLen(ReadChunk(p2, pos2).data))
        ELSE r

\* the whole call, as the grouping operations use it
deep_compare_two_files(p1, p2) ==
    LET r  == IF OpenBoth(p1, p2) = "OSError" THEN "OSError"
              ELSE CompareLoop(p1, p2, 0, 0)
        rv == IF r = "OSError" THEN OnOSError ELSE r
    IN  rv = "True"

---------------------------------------------------------------------------
(* group_files and the two feature groupers *)

Range(s) == { s[k] : k \in DOMAIN s }

\* a setdefault(...).insert(0, file_path): the paths of a group in reverse
SetDefaultPrepend(d, key, p) ==
    IF \E k \in DOMAIN d : d[k].key = key
    THEN [k \in DOMAIN d |->
            IF d[k].key = key THEN [key |-> key, val |-> <<p>> \o d[k].val]
            ELSE d[k]]
    ELSE Append(d, [key |-> key, val |-> <<p>>])

\* groups_dict.setdefault(file_feature, []).append(file_path); the dict keeps
\* its keys in insertion order
SetDefaultAppend(d, key, p) ==
    IF \E k \in DOMAIN d : d[k].key = key
    THEN [k \in DOMAIN d |->
            IF d[k].key = key THEN [key |-> key, val |-> Append(d[k].val, p)]
            ELSE d[k]]
    ELSE Append(d, [key |-> key, val |-> <<p>>])

RECURSIVE GroupsDict(_, _, _)
\* groups_dict after the first n paths of the for loop
GroupsDict(paths, fn, n) ==
    IF n = 0 THEN <<>>
    ELSE LET d == GroupsDict(paths, fn, n - 1)
             file_feature == Caught(Feature(fn, paths[n]))
         IN  IF Truthy(file_feature)
             THEN SetDefaultAppend(d, file_feature, paths[n])
             ELSE d

\* an OSError of the feature function leaves group_files uncaught
Propagates(paths, fn) ==
    \E n \in DOMAIN paths : Caught(Feature(fn, paths[n])) = OSError

\* a group_files that keeps the groups of one file (len(group) > 0)
group_files_keep_singletons(paths, fn) ==
    LET d    == GroupsDict(paths, fn, Len(paths))
        kept == SelectSeq(d, LAMBDA e : Len(e.val) > 0)
    IN  [k \in DOMAIN kept |-> kept[k].val]

\* [group for group in groups_dict.values() if len(group) > 1]
group_files(paths, fn) ==
    LET d    == GroupsDict(paths, fn, Len(paths))
        kept == SelectSeq(d, LAMBDA e : Len(e.val) > 1)
    IN  [k \in DOMAIN kept |-> kept[k].val]

group_files_by_checksum(paths) == group_files(paths, "get_file_hash")

group_files_by_size(paths) == group_files(paths, "getsize")

---------------------------------------------------------------------------
(* group_files_by_read_content *)

\* same_files: current_file_path, then every path of the list equal to it
get_same_files(current_file_path, list_of_file_paths) ==
    <<current_file_path>> \o
    SelectSeq(list_of_file_paths,
              LAMBDA q : deep_compare_two_files(current_file_path, q))

\* list.remove(x): the list without its first x
ListRemove(s, x) ==
    LET k == CHOOSE k \in DOMAIN s :
                 s[k] = x /\ \A j \in 1..(k - 1) : s[j] # x
    IN  SubSeq(s, 1, k - 1) \o SubSeq(s, k + 1, Len(s))

\* a remove_same_elements that removes nothing
remove_nothing(source_list, another_list) == another_list

RECURSIVE remove_same_elements(_, _)
\* the value of another_list after the call
remove_same_elements(source_list, another_list) ==
    IF source_list = <<>> THEN another_list
    ELSE remove_same_elements(
             Tail(source_list),
             IF Head(source_list) \in Range(another_list)
             THEN ListRemove(another_list, Head(source_list))
             ELSE another_list)

\* a loop body that reads file_path_names[0] without popping it
ReadContentIterNoPop(list, gl) ==
    LET current_file == Head(list)
        After(same_files) ==
            [list        |-> remove_same_elements(Tail(same_files), list),
             groups_list |-> IF Len(same_files) > 1 THEN Append(gl, same_files)
                             ELSE gl,
             same_files  |-> same_files]
    IN  CHOOSE r \in { After(same_files) :
                         same_files \in {get_same_files(current_file, list)} } :
            TRUE

\* One pass of the body of "while file_path_names": the list and groups_list
\* after it, and the same_files it found.
ReadContentIter(list, gl) ==
    LET current_file == Head(list)
        popped       == Tail(list)
        After(same_files) ==
            [list        |-> remove_same_elements(Tail(same_files), popped),
             groups_list |-> IF Len(same_files) > 1 THEN Append(gl, same_files)
                             ELSE gl,
             same_files  |-> same_files]
    IN  \* same_files = get_same_files(current_file, file_path_names), once
        CHOOSE r \in { After(same_files) :
                         same_files \in {get_same_files(current_file, popped)} } :
            TRUE

RECURSIVE ReadContentLoop(_, _)
ReadContentLoop(list, gl) ==
    IF list = <<>> THEN gl
    ELSE LET r == ReadContentIter(list, gl)
         IN  ReadContentLoop(r.list, r.groups_list)

\* the value the whole call returns
group_files_by_read_content(paths) == ReadContentLoop(paths, <<>>)

---------------------------------------------------------------------------
(* find_duplicate_files *)

Strategies == {"group_files_by_checksum", "group_files_by_read_content"}

\* group_files_function(group)
ApplyStrategy(fn, group) ==
    CASE fn = "group_files_by_checksum"     -> group_files_by_checksum(group)
      [] fn = "group_files_by_read_content" -> group_files_by_read_content(group)

RECURSIVE ConcatGroups(_, _, _)
\* groups after the first n size groups
ConcatGroups(sgs, fn, n) ==
    IF n = 0 THEN <<>>
    ELSE ConcatGroups(sgs, fn, n - 1) \o ApplyStrategy(fn, sgs[n])

\* the value the whole call returns
find_duplicate_files(paths, fn) ==
    LET sgs == group_files_by_size(paths)
    IN  ConcatGroups(sgs, fn, Len(sgs))

---------------------------------------------------------------------------
(* The calls, step by step *)

\* a group_files that hands back the caller's own list when one group holds
\* all of it
SizeGroupRefsShared(h, sgs) ==
    [k \in DOMAIN sgs |-> IF sgs[k] = h[1] THEN 1 ELSE Len(h) + k]

\* The lists the for loop of find_duplicate_files hands to the second stage:
\* every group of group_files_by_size is a list of its own, made by
\* setdefault(file_feature, []).
SizeGroupRefs(h, sgs) == [k \in DOMAIN sgs |-> Len(h) + k]

IdleCmp == [pc |-> "idle", p1 |-> 0, p2 |-> 0, pos1 |-> 0, pos2 |-> 0, ret |-> "none"]

\* Paths are 1, 2, ...; only their identity matters to the code, so a list
\* names its paths in the order of their first occurrence.
FirstOccurrenceOrder(s) ==
    \A k \in DOMAIN s :
        \/ \E j \in 1..(k - 1) : s[j] = s[k]
        \/ s[k] = Cardinality({ s[j] : j \in 1..(k - 1) }) + 1

\* the lists of at most MaxLen paths, a path possibly several times
Inputs ==
    UNION { { s \in [1..n -> 1..n] : FirstOccurrenceOrder(s) } : n \in 0..MaxLen }

NoDuplicates(s) == \A j, k \in DOMAIN s : j # k => s[j] # s[k]

\* A caller holds a list of paths of some directory and has called nothing yet.
Init ==
    /\ \E s \in Inputs :
           /\ input = s
           /\ heap = <<s>>
           /\ fs \in [1..Cardinality(Range(s)) -> PipelineFiles]
    /\ strategy = "none"
    /\ pc = "idle"
    /\ size_groups = <<>>
    /\ i = 0
    /\ groups = <<>>
    /\ cur = 0
    /\ groups_list = <<>>
    /\ classes = <<>>
    /\ calls = <<>>
    /\ faster_algo = FALSE
    /\ stdout = <<>>
    /\ cmp = IdleCmp

CallRecord(fn, arg, ret, returned) ==
    [fn |-> fn, arg |-> arg, ret |-> ret, returned |-> returned]

\* find_duplicate_files(file_path_names, fn), to the head of its for loop:
\* groups = [] and the call of group_files_by_size
EnterFindDuplicateFiles(fn) ==
    /\ strategy' = fn
    /\ groups' = <<>>
    /\ IF Propagates(heap[1], "getsize")
       THEN /\ pc' = "raised"
            /\ UNCHANGED <<heap, size_groups, i, calls>>
       ELSE LET sgs == group_files_by_size(heap[1])
            IN  /\ size_groups' = SizeGroupRefs(heap, sgs)
                /\ heap' = heap \o sgs
                /\ i' = 1
                /\ calls' = Append(calls,
                       CallRecord("group_files_by_size", heap[1], sgs, TRUE))
                /\ pc' = "for"
    /\ UNCHANGED <<fs, input, cur, groups_list, classes, faster_algo, stdout, cmp>>

\* a caller calls find_duplicate_files with one of the two strategies
Call ==
    /\ pc = "idle"
    /\ \E fn \in Strategies : EnterFindDuplicateFiles(fn)

\* groups += group_files_by_checksum(group)
ForChecksum ==
    /\ pc = "for"
    /\ i <= Len(size_groups)
    /\ strategy = "group_files_by_checksum"
    /\ LET group == heap[size_groups[i]]
       IN  IF Propagates(group, "get_file_hash")
           THEN /\ pc' = "raised"
                /\ UNCHANGED <<groups, i, calls>>
           ELSE /\ groups' = groups \o group_files_by_checksum(group)
                /\ i' = i + 1
                /\ calls' = Append(calls,
                       CallRecord("group_files_by_checksum", group,
                                  group_files_by_checksum(group), TRUE))
                /\ pc' = "for"
    /\ UNCHANGED <<fs, heap, input, strategy, size_groups, cur, groups_list,
                   classes, faster_algo, stdout, cmp>>

\* group_files_by_read_content(group) is entered: groups_list = []
ForReadContent ==
    /\ pc = "for"
    /\ i <= Len(size_groups)
    /\ strategy = "group_files_by_read_content"
    /\ cur' = size_groups[i]
    /\ groups_list' = <<>>
    /\ classes' = <<>>
    /\ calls' = Append(calls,
           CallRecord("group_files_by_read_content", heap[size_groups[i]],
                      <<>>, FALSE))
    /\ pc' = "while"
    /\ UNCHANGED <<fs, heap, input, strategy, size_groups, i, groups,
                   faster_algo, stdout, cmp>>

\* a caller calls group_files_by_read_content on its own list
CallReadContent ==
    /\ pc = "idle"
    /\ strategy' = "direct"
    /\ cur' = 1
    /\ groups_list' = <<>>
    /\ classes' = <<>>
    /\ calls' = Append(calls,
           CallRecord("group_files_by_read_content", heap[1], <<>>, FALSE))
    /\ pc' = "while"
    /\ UNCHANGED <<fs, heap, input, size_groups, i, groups, faster_algo,
                   stdout, cmp>>

\* one pass of "while file_path_names": pop(0), get_same_files,
\* remove_same_elements, groups_list.append
WhileIter ==
    /\ pc = "while"
    /\ heap[cur] # <<>>
    /\ \E r \in {ReadContentIter(heap[cur], groups_list)} :
           /\ heap' = [heap EXCEPT ![cur] = r.list]
           /\ groups_list' = r.groups_list
           /\ classes' = Append(classes, r.same_files)
    /\ UNCHANGED <<fs, input, strategy, pc, size_groups, i, groups, cur, calls,
                   faster_algo, stdout, cmp>>

\* the list is empty: return groups_list, to the for loop of
\* find_duplicate_files (groups += ...) or to the caller
WhileExit ==
    /\ pc = "while"
    /\ heap[cur] = <<>>
    /\ calls' = [calls EXCEPT ![Len(calls)] =
                    CallRecord(@.fn, @.arg, groups_list, TRUE)]
    /\ IF strategy = "direct"
       THEN /\ groups' = groups_list
            /\ pc' = "done"
            /\ i' = i
       ELSE /\ groups' = groups \o groups_list
            /\ pc' = "for"
            /\ i' = i + 1
    /\ UNCHANGED <<fs, heap, input, strategy, size_groups, cur, groups_list,
                   classes, faster_algo, stdout, cmp>>

\* return groups
Return ==
    /\ pc = "for"
    /\ i > Len(size_groups)
    /\ pc' = "done"
    /\ UNCHANGED <<fs, heap, input, strategy, size_groups, i, groups, cur,
                   groups_list, classes, calls, faster_algo, stdout, cmp>>

Next ==
    \/ Call
    \/ CallReadContent
    \/ ForChecksum
    \/ ForReadContent
    \/ WhileIter
    \/ WhileExit
    \/ Return

Spec == Init /\ [][Next]_vars

---------------------------------------------------------------------------
(* main *)

RECURSIVE SortedSeq(_)
\* sorted(...) of a set of paths
SortedSeq(S) ==
    IF S = {} THEN <<>>
    ELSE LET m == CHOOSE x \in S : \A y \in S : x <= y
         IN  <<m>> \o SortedSeq(S \ {m})

\* scan_files(args.path): the sorted list of the files of the directory
scan_files == SortedSeq(DOMAIN fs)

\* The program has been started on a directory of at most MaxLen files.
InitMain ==
    /\ \E n \in 0..MaxLen : fs \in [1..n -> PipelineFiles]
    /\ input = <<>>
    /\ heap = <<>>
    /\ strategy = "none"
    /\ pc = "main"
    /\ size_groups = <<>>
    /\ i = 0
    /\ groups = <<>>
    /\ cur = 0
    /\ groups_list = <<>>
    /\ classes = <<>>
    /\ calls = <<>>
    /\ faster_algo = FALSE
    /\ stdout = <<>>
    /\ cmp = IdleCmp

\* args = get_parser(), with or without --faster_algo;
\* file_path_names = scan_files(args.path)
MainScan ==
    /\ pc = "main"
    /\ faster_algo' \in BOOLEAN
    /\ input' = scan_files
    /\ heap' = <<scan_files>>
    /\ pc' = "scanned"
    /\ UNCHANGED <<fs, strategy, size_groups, i, groups, cur, groups_list,
                   classes, calls, stdout, cmp>>

\* if args.faster_algo: t1 = time() -- the module imports no time, so the
\* name lookup raises NameError, which leaves main() and is swallowed by
\* "except Exception: pass"
MainFaster ==
    /\ pc = "scanned"
    /\ faster_algo
    /\ pc' = "exit"
    /\ UNCHANGED <<fs, heap, input, strategy, size_groups, i, groups, cur,
                   groups_list, classes, calls, faster_algo, stdout, cmp>>

\* else: find_duplicate_files(file_path_names, group_files_by_checksum)
MainDefault ==
    /\ pc = "scanned"
    /\ ~faster_algo
    /\ EnterFindDuplicateFiles("group_files_by_checksum")

\* print_result(...) of the value find_duplicate_files returned
MainPrint ==
    /\ pc = "done"
    /\ stdout' = Append(stdout, groups)
    /\ pc' = "exit"
    /\ UNCHANGED <<fs, heap, input, strategy, size_groups, i, groups, cur,
                   groups_list, classes, calls, faster_algo, cmp>>

NextMain ==
    \/ MainScan
    \/ MainFaster
    \/ MainDefault
    \/ ForChecksum
    \/ Return
    \/ MainPrint

SpecMain == InitMain /\ [][NextMain]_vars

---------------------------------------------------------------------------
(* deep_compare_two_files, step by step *)

\* A caller calls deep_compare_two_files on two paths (possibly the same
\* path) of a directory of two files.
InitCompare ==
    /\ fs \in [1..2 -> CompareFiles]
    /\ \E p1, p2 \in 1..2 :
           cmp = [pc |-> "call", p1 |-> p1, p2 |-> p2,
                  pos1 |-> 0, pos2 |-> 0, ret |-> "none"]
    /\ input = <<>>
    /\ heap = <<>>
    /\ strategy = "none"
    /\ pc = "compare"
    /\ size_groups = <<>>
    /\ i = 0
    /\ groups = <<>>
    /\ cur = 0
    /\ groups_list = <<>>
    /\ classes = <<>>
    /\ calls = <<>>
    /\ faster_algo = FALSE
    /\ stdout = <<>>

others == <<fs, heap, input, strategy, pc, size_groups, i, groups, cur,
            groups_list, classes, calls, faster_algo, stdout>>

\* with open(...) as f1, open(...) as f2
CmpOpen ==
    /\ cmp.pc = "call"
    /\ cmp' = [cmp EXCEPT !.pc = IF OpenBoth(cmp.p1, cmp.p2) = "OSError"
                                 THEN "except" ELSE "loop"]
    /\ UNCHANGED others

\* one pass of "while True"
CmpRead ==
    /\ cmp.pc = "loop"
    /\ LET r == CompareIter(cmp.p1, cmp.p2, cmp.pos1, cmp.pos2)
       IN  cmp' =
             CASE r = "loop" ->
                    [cmp EXCEPT
                       !.pos1 = @ + ByteLen(ReadChunk(cmp.p1, cmp.pos1).data),
                       !.pos2 = @ + ByteLen(ReadChunk(cmp.p2, cmp.pos2).data)]
               [] r = "OSError" -> [cmp EXCEPT !.pc = "except"]
               [] OTHER -> [cmp EXCEPT !.pc = "returned", !.ret = r]
    /\ UNCHANGED others

\* except OSError: return False
CmpExcept ==
    /\ cmp.pc = "except"
    /\ cmp' = IF OnOSError = "OSError"
              THEN [cmp EXCEPT !.pc = "raised"]
              ELSE [cmp EXCEPT !.pc = "returned", !.ret = OnOSError]
    /\ UNCHANGED others

NextCompare ==
    \/ CmpOpen
    \/ CmpRead
    \/ CmpExcept

SpecCompare == InitCompare /\ [][NextCompare]_vars

---------------------------------------------------------------------------
(* Properties *)

SameContent(p, q) == fs[p].content = fs[q].content

\* find_duplicate_files has returned groups
Returned == pc = "done" /\ strategy \in Strategies

\* no two files of the list with the same size and different contents have
\* the same digest
NoCollision(paths) ==
    \A p, q \in Range(paths) :
        (/\ ByteLen(fs[p].content) = ByteLen(fs[q].content)
         /\ ~SameContent(p, q))
        => hexdigest(fs[p].content) # hexdigest(fs[q].content)

\* the groups as a set of sets of paths
GroupSets(gs) == { Range(gs[k]) : k \in DOMAIN gs }

OtherStrategy(fn) ==
    IF fn = "group_files_by_checksum" THEN "group_files_by_read_content"
    ELSE "group_files_by_checksum"

\* C1 as stated: every group find_duplicate_files returns, under either
\* strategy, has at least 2 members, all with byte-identical content.
C1_GroupsIdentical ==
    Returned =>
        \A k \in DOMAIN groups :
            /\ Len(groups[k]) >= 2
            /\ \A p, q \in Range(groups[k]) : SameContent(p, q)

\* C1 amended: every group has at least 2 members; its members have
\* byte-identical content under group_files_by_read_content, and under
\* group_files_by_checksum when no two same-size input files with different
\* contents have the same digest.
C1_GroupsIdenticalBarringCollision ==
    Returned =>
        \A k \in DOMAIN groups :
            /\ Len(groups[k]) >= 2
            /\ (strategy = "group_files_by_read_content" \/ NoCollision(input))
               => \A p, q \in Range(groups[k]) : SameContent(p, q)

\* a checksum run on a list with same-size files of different digests that
\* returned a group
C1_Witness ==
    /\ Returned
    /\ strategy = "group_files_by_checksum"
    /\ NoCollision(input)
    /\ \E p, q \in Range(input) :
           /\ ByteLen(fs[p].content) = ByteLen(fs[q].content)
           /\ ~SameContent(p, q)
    /\ groups # <<>>

\* C2: for a duplicate-free input and either strategy, any two readable input
\* files with byte-identical contents, of any length, are together in one
\* returned group.
C2_GroupsMaximal ==
    (Returned /\ NoDuplicates(input)) =>
        \A p, q \in Range(input) :
            (p # q /\ Healthy(fs[p]) /\ Healthy(fs[q]) /\ SameContent(p, q))
            => \E k \in DOMAIN groups : {p, q} \subseteq Range(groups[k])

\* C3: for a duplicate-free input and either strategy, the returned groups
\* hold only paths of the input, no path is in two groups, and no path is
\* twice in one group.
C3_GroupsPartitionSubset ==
    (Returned /\ NoDuplicates(input)) =>
        /\ \A k \in DOMAIN groups :
               /\ Range(groups[k]) \subseteq Range(input)
               /\ NoDuplicates(groups[k])
        /\ \A j, k \in DOMAIN groups :
               j # k => Range(groups[j]) \cap Range(groups[k]) = {}

\* a run on distinct paths that returned two groups
C3_Witness ==
    /\ Returned
    /\ NoDuplicates(input)
    /\ Len(groups) >= 2

\* C4: for a duplicate-free input without digest collision among same-size
\* files, both strategies return the same set of groups, unreadable files
\* included.
C4_StrategiesAgree ==
    (Returned /\ NoDuplicates(input) /\ NoCollision(input)) =>
        GroupSets(groups)
            = GroupSets(find_duplicate_files(input, OtherStrategy(strategy)))

\* a run without collision, with an unreadable file among three files of one
\* size, that returned a group
C4_Witness ==
    /\ Returned
    /\ NoDuplicates(input)
    /\ NoCollision(input)
    /\ \E p \in Range(input) : fs[p].stat /\ ~Readable(fs[p])
    /\ groups # <<>>
    /\ \E k \in DOMAIN size_groups : Len(calls[1].ret[k]) >= 3

\* the input without the files whose size query, open or read fails
HealthyInput == SelectSeq(input, LAMBDA p : Healthy(fs[p]))

\* C5: a file whose size query or read fails is in no returned group and
\* never aborts find_duplicate_files: the call returns, and the groups are
\* those returned for the input without the failing files (the same groups,
\* each with the same members in the same order; the list may name them in
\* another order).
C5_FailingFilesOmitted ==
    /\ pc # "raised"
    /\ Returned =>
        /\ \A k \in DOMAIN groups :
               \A p \in Range(groups[k]) : Healthy(fs[p])
        /\ Range(groups) = Range(find_duplicate_files(HealthyInput, strategy))
        /\ Len(groups) = Len(find_duplicate_files(HealthyInput, strategy))

\* a run where a healthy file's only duplicate cannot be read, and a file
\* whose size query fails is in the list: nothing is returned
C5_Witness ==
    /\ Returned
    /\ groups = <<>>
    /\ \E p, q \in Range(input) :
           /\ Healthy(fs[p])
           /\ fs[q].stat /\ ~Readable(fs[q])
           /\ SameContent(p, q)
    /\ \E p \in Range(input) : ~fs[p].stat

\* C6: deep_compare_two_files returns True iff both files can be opened and
\* read to the end and their contents are identical; otherwise it returns
\* False; no OSError leaves it.
C6_DeepCompareExact ==
    /\ cmp.pc # "raised"
    /\ cmp.pc = "returned" =>
        /\ cmp.ret \in {"True", "False"}
        /\ cmp.ret = "True" <=>
              /\ Readable(fs[cmp.p1])
              /\ Readable(fs[cmp.p2])
              /\ SameContent(cmp.p1, cmp.p2)

\* two different files longer than one chunk compared equal
C6_Witness ==
    /\ cmp.pc = "returned"
    /\ cmp.ret = "True"
    /\ cmp.p1 # cmp.p2
    /\ cmp.pos1 > read_size

RECURSIVE Flatten(_)
Flatten(ss) == IF ss = <<>> THEN <<>> ELSE Head(ss) \o Flatten(Tail(ss))

LastCall == calls[Len(calls)]

\* the state a call of group_files_by_read_content leaves behind: its list
\* is empty, what it returned are the classes of at least 2 members, and the
\* classes hold the paths of its argument, each once when they are distinct
ReadContentPostcondition ==
    (pc \in {"for", "done"} /\ calls # <<>>
        /\ LastCall.fn = "group_files_by_read_content") =>
        /\ LastCall.returned
        /\ heap[cur] = <<>>
        /\ LastCall.ret = SelectSeq(classes, LAMBDA c : Len(c) > 1)
        /\ Range(Flatten(classes)) = Range(LastCall.arg)
        /\ NoDuplicates(LastCall.arg) => NoDuplicates(Flatten(classes))

\* C7: group_files_by_read_content terminates: each pass of its loop takes
\* the first remaining path as pivot and removes it and every remaining
\* readable path with the pivot's content, so the list strictly shrinks, and
\* a call inside the loop can always take a step (another pass, or the exit
\* on the empty list); when it has returned the list is empty, and for
\* distinct paths every path is in exactly one class, which is returned iff
\* it has at least 2 members.
C7_ReadContentTerminates ==
    [][/\ (pc = "while" /\ pc' = "while") =>
            /\ Len(heap'[cur]) < Len(heap[cur])
            /\ classes'[Len(classes')][1] = Head(heap[cur])
            /\ Range(heap'[cur]) \subseteq Range(Tail(heap[cur]))
            /\ \A q \in Range(heap'[cur]) :
                   ~(/\ Readable(fs[Head(heap[cur])])
                     /\ Readable(fs[q])
                     /\ SameContent(Head(heap[cur]), q))
       /\ (pc' = "while") => (ENABLED (WhileIter \/ WhileExit))'
       /\ (pc = "while" /\ pc' # "while") => heap[cur] = <<>>
       /\ ReadContentPostcondition']_vars

\* a direct call on four distinct paths returned one group and dropped two
\* singletons
C7_Witness ==
    /\ pc = "done"
    /\ strategy = "direct"
    /\ NoDuplicates(input)
    /\ Len(input) = 4
    /\ Len(classes) = 3
    /\ Len(groups) = 1

RECURSIVE IsSubseq(_, _)
\* g can be got from s by leaving elements out
IsSubseq(g, s) ==
    IF g = <<>> THEN TRUE
    ELSE IF s = <<>> THEN FALSE
    ELSE IF Head(g) = Head(s) THEN IsSubseq(Tail(g), Tail(s))
    ELSE IsSubseq(g, Tail(s))

FirstIndex(x, s) == CHOOSE k \in DOMAIN s : s[k] = x /\ \A j \in 1..(k - 1) : s[j] # x

\* C8: in every list of groups returned by group_files (by size, by
\* checksum) and by group_files_by_read_content, the members of a group are
\* in the order of the input sequence, and the groups are in the order in
\* which their first members appear in it.
C8_OrderPreserved ==
    \A n \in DOMAIN calls :
        calls[n].returned =>
            /\ \A k \in DOMAIN calls[n].ret :
                   IsSubseq(calls[n].ret[k], calls[n].arg)
            /\ \A j, k \in DOMAIN calls[n].ret :
                   j < k => FirstIndex(calls[n].ret[j][1], calls[n].arg)
                              < FirstIndex(calls[n].ret[k][1], calls[n].arg)

\* group_files returned the four paths as one group and
\* group_files_by_read_content two groups whose members alternate in it
C8_Witness ==
    /\ \E n \in DOMAIN calls :
           /\ calls[n].fn = "group_files_by_size"
           /\ calls[n].ret = << <<1, 2, 3, 4>> >>
    /\ \E n \in DOMAIN calls :
           /\ calls[n].fn = "group_files_by_read_content"
           /\ calls[n].returned
           /\ calls[n].ret = << <<1, 3>>, <<2, 4>> >>

\* C9: main, on a valid --path, prints exactly once: the groups of
\* find_duplicate_files with group_files_by_read_content under --faster_algo,
\* with group_files_by_checksum without it.
C9_MainPrintsChosenStrategy ==
    pc = "exit" =>
        /\ Len(stdout) = 1
        /\ stdout[1] = find_duplicate_files(
                           input,
                           IF faster_algo THEN "group_files_by_read_content"
                           ELSE "group_files_by_checksum")

\* C10: find_duplicate_files leaves the caller's list as it was, under either
\* strategy; the lists the second stage consumes are the size groups' own,
\* each handed to one second-stage call.
C10_CallerListUnchanged ==
    strategy \in Strategies =>
        /\ heap[1] = input
        /\ \A k \in DOMAIN size_groups : size_groups[k] # 1
        /\ \A j, k \in DOMAIN size_groups :
               j # k => size_groups[j] # size_groups[k]

\* a read-content run returned after consuming two size groups
C10_Witness ==
    /\ Returned
    /\ strategy = "group_files_by_read_content"
    /\ Len(size_groups) = 2
    /\ \A k \in DOMAIN size_groups : heap[size_groups[k]] = <<>>
    /\ Len(input) = 4

==========================================================================
